---- MODULE Spec2Model ----
(***************************************************************************)
(* The controller event pipeline of kube/src/runtime/controller.rs:        *)
(* Controller::new / owns / init, the listener task init spawns for every  *)
(* informer, the conversion ReconcileEvent::try_from, and the unbounded    *)
(* mpsc channel the listeners send to.                                     *)
(*                                                                         *)
(* A listener iteration (poll_i.next().await, the match, try_from and      *)
(* unbounded_send) has no suspension point after the item arrived and      *)
(* touches shared state only in unbounded_send, so it is one action.       *)
(* tokio::spawn isolates a panicking task (default unwinding build).       *)
(***************************************************************************)
EXTENDS Naturals, Sequences, FiniteSets

\* ------------------------------------------------------------------------
\* Bounds of the model
\* ------------------------------------------------------------------------
MaxOwned == 2
MaxTasks == 2
MaxEvents == 3

\* ------------------------------------------------------------------------
\* Values
\* ------------------------------------------------------------------------
\* Option<T>: None is the empty sequence, Some(x) the one-element sequence.
None == << >>
Some(x) == << x >>

\* Result<T>: Ok(v) / Err(e).
Ok(v) == [ok |-> TRUE, val |-> Some(v), err |-> None]
Err(e) == [ok |-> FALSE, val |-> None, err |-> Some(e)]

\* Resource kinds a Controller can be built on or own.
Kinds == {"Pod", "ReplicaSet"}

\* Object names, and the objects of each kind living in the cluster.
Names == {"p1", "rs1"}
ClusterNames == [k \in Kinds |-> IF k = "Pod" THEN {"p1"} ELSE {"rs1"}]

\* A watched object K: kind-specific data plus the metadata Meta reads.
Object(k, n, ns, s) ==
    [kind |-> k, metadata |-> [name |-> n, namespace |-> ns], spec |-> s]

\* Meta::name / Meta::namespace: the capability every K provides.
MetaName(k) == k.metadata.name
MetaNamespace(k) == k.metadata.namespace

\* WatchEvent<K>
Added(o) == [type |-> "Added", object |-> Some(o), error |-> None]
Modified(o) == [type |-> "Modified", object |-> Some(o), error |-> None]
Deleted(o) == [type |-> "Deleted", object |-> Some(o), error |-> None]
Error(e) == [type |-> "Error", object |-> None, error |-> Some(e)]

\* The API error responses a watch can report, and the stream-level errors
\* of an informer's stream (crate::Error values).
ApiErrors == {"Gone"}
StreamErrors == {[variant |-> "ReqwestError", resp |-> "timeout"]}

\* Error::Api(e)
ErrorApi(e) == [variant |-> "Api", resp |-> e]

\* ------------------------------------------------------------------------
\* ReconcileEvent and the Event Normalizer
\* ------------------------------------------------------------------------
ReconcileEvent(n, ns) == [name |-> n, namespace |-> ns]

\* A plausible slip of From<K>: the namespace is not carried over.
FromNoNamespace(k) == ReconcileEvent(MetaName(k), None)

\* impl From<K> for ReconcileEvent
From(k) == ReconcileEvent(MetaName(k), MetaNamespace(k))

\* impl TryFrom<WatchEvent<K>> for ReconcileEvent
try_from(w) ==
    CASE w.type = "Added" -> Ok(From(w.object[1]))
      [] w.type = "Modified" -> Ok(From(w.object[1]))
      [] w.type = "Deleted" -> Ok(From(w.object[1]))
      [] w.type = "Error" -> Err(ErrorApi(w.error[1]))

\* ------------------------------------------------------------------------
\* State
\* ------------------------------------------------------------------------
VARIABLES
    resource,   \* Controller.resource: the primary resource
    informers,  \* Controller.informers: Vec<Informer<K>>, by resource kind
    queue,      \* Controller.queue: VecDeque<ReconcileEvent>
    channel,    \* messages buffered in Controller.channel (tx -> rx)
    alive,      \* the Controller value, and so channel.1, still exists
    started,    \* init has run
    tasks,      \* the listener tasks init spawned, in spawn order
    feed,       \* per resource kind: the items its watch stream yields
    delivered,  \* what has been pulled out of channel.1, in order
    nsent,      \* number of unbounded_send calls that succeeded
    senders,    \* who holds a sender of the channel: 0 is channel.0
    w,          \* the Event Normalizer's input
    ri          \* the Event Normalizer's output, None before it ran

vars == << resource, informers, queue, channel, alive, started, tasks, feed,
           delivered, nsent, senders, w, ri >>

pipeline == << resource, informers, queue, channel, alive, started, tasks,
               feed, delivered, nsent, senders >>

\* ------------------------------------------------------------------------
\* Helpers
\* ------------------------------------------------------------------------
Range(s) == {s[i] : i \in DOMAIN s}

Last(s) == s[Len(s)]

IsPrefix(s, t) == Len(s) <= Len(t) /\ SubSeq(t, 1, Len(s)) = s

RECURSIVE SumLen(_, _)
SumLen(f, S) ==
    IF S = {} THEN 0
    ELSE LET k == CHOOSE x \in S : TRUE
         IN Len(f[k]) + SumLen(f, S \ {k})

\* The resources the Controller was told about: new()'s and every owns()'s.
Registered == {resource} \cup Range(informers)

\* The objects of kind k living in the cluster.
Objects(k) == {Object(k, n, Some("default"), 0) : n \in ClusterNames[k]}

\* The items a watch stream on kind k yields in the pipeline, each a
\* Result<WatchEvent<K>>: a change of an object, an Error notification, or
\* a failed item. Added, Modified and Deleted take the same path through the
\* listener (try_from maps all three with From); NormSpec covers each of
\* them, the streams of the pipeline carry Modified.
Items(k) ==
    {Ok(Modified(o)) : o \in Objects(k)}
    \cup {Ok(Error(e)) : e \in ApiErrors} \cup {Err(e) : e \in StreamErrors}

\* The inputs of the Event Normalizer: any kind, with or without namespace.
WatchEvents ==
    LET objs == {Object(k, n, ns, s) : k \in Kinds \cup {"Foo"}, n \in Names,
                 ns \in {None, Some("default"), Some("kube-system")},
                 s \in {0, 1}}
    IN {Added(o) : o \in objs} \cup {Modified(o) : o \in objs}
       \cup {Deleted(o) : o \in objs} \cup {Error(e) : e \in ApiErrors}

\* ------------------------------------------------------------------------
\* The channel: futures::channel::mpsc::unbounded
\* ------------------------------------------------------------------------
\* A buffered message carries the value sent (msg) and, for the properties
\* only, where it came from: the sending task, the resource and index of the
\* stream item, the send's sequence number, and whether its identity had no
\* buffered message when it was sent.
Entry(m, t, r, i, n, f) ==
    [msg |-> m, task |-> t, res |-> r, idx |-> i, seq |-> n, fresh |-> f]

\* A plausible slip: the result is computed but the send is left out.
unbounded_send_lost(ch, e) == ch

\* A plausible slip: the new message goes to the front of the buffer.
unbounded_send_front(ch, e) == << e >> \o ch

\* UnboundedSender::unbounded_send: never blocks, appends to the buffer.
unbounded_send(ch, e) == Append(ch, e)

\* A plausible slip: a bounded channel, whose sender waits for room.
HasRoomBounded(ch) == Len(ch) < 2

\* mpsc::unbounded(): a send never waits for room, whatever is buffered.
HasRoom(ch) == TRUE

\* A plausible slip: init moves the Controller's sender into the listeners
\* instead of cloning it.
MovedSenders(sn, ts, n) == (sn \ {0}) \cup (Len(ts) + 1 .. Len(ts) + n)

\* let tx = self.channel.0.clone(), once per spawned task: the holders of a
\* sender after init spawned n tasks behind ts. Holder 0 is the Controller
\* (channel.0), holder t is listener task t.
ClonedSenders(sn, ts, n) == sn \cup (Len(ts) + 1 .. Len(ts) + n)

\* The identities with a request buffered in ch.
Pending(ch) == {ch[i].msg.val[1] : i \in {j \in DOMAIN ch : ch[j].msg.ok}}

\* ------------------------------------------------------------------------
\* Controller
\* ------------------------------------------------------------------------
\* Controller::new(client, r), on the primary resource Pod: no informers, an
\* empty queue, a fresh channel. No cluster change has been reported yet.
Init ==
    /\ resource = "Pod"
    /\ informers = << >>
    /\ queue = << >>
    /\ channel = << >>
    /\ alive = TRUE
    /\ started = FALSE
    /\ tasks = << >>
    /\ feed = [k \in Kinds |-> << >>]
    /\ delivered = << >>
    /\ nsent = 0
    /\ senders = {0}
    /\ w = Error("Gone")
    /\ ri = None

\* Controller::owns(r, lp): pushes one more informer. Nothing in the code
\* ties it to the time before init, and r may repeat.
owns(r) ==
    /\ alive
    /\ Len(informers) < MaxOwned
    /\ informers' = Append(informers, r)
    /\ UNCHANGED << resource, queue, channel, alive, started, tasks, feed,
                    delivered, nsent, senders, w, ri >>

\* The tasks one run of init's loop spawns: one per element of informers.
Spawned == [i \in 1..Len(informers) |->
               [inf |-> informers[i], pc |-> "start", pos |-> 0]]

\* A plausible slip: the loop takes the informers out of self instead of
\* iterating over a clone of them.
init_drain ==
    /\ alive
    /\ Len(tasks) + Len(informers) <= MaxTasks
    /\ tasks' = tasks \o Spawned
    /\ started' = TRUE
    /\ senders' = ClonedSenders(senders, tasks, Len(informers))
    /\ informers' = << >>
    /\ UNCHANGED << resource, queue, channel, alive, feed, delivered, nsent,
                    w, ri >>

\* Controller::init(self): spawns the listeners and returns self, so it can
\* be called again.
init ==
    /\ alive
    /\ Len(tasks) + Len(informers) <= MaxTasks
    /\ tasks' = tasks \o Spawned
    /\ started' = TRUE
    /\ senders' = ClonedSenders(senders, tasks, Len(informers))
    /\ UNCHANGED << resource, informers, queue, channel, alive, feed,
                    delivered, nsent, w, ri >>

\* ------------------------------------------------------------------------
\* The listener task (the async block of init)
\* ------------------------------------------------------------------------
\* A plausible slip: a panic takes every listener down.
AbortAll(ts, t) == [i \in DOMAIN ts |-> [ts[i] EXCEPT !.pc = "panicked"]]

\* A panic (unwrap, expect, unimplemented!) ends the task it happens in.
Abort(ts, t) == [ts EXCEPT ![t].pc = "panicked"]

\* A plausible slip: the loop is left after an Error notification.
BreakOnError(ts, t, wi) ==
    [ts EXCEPT ![t].pos = @ + 1,
               ![t].pc = IF wi.type = "Error" THEN "ended" ELSE @]

\* After a send the loop goes on to the next poll_i.next().await.
Continue(ts, t, wi) == [ts EXCEPT ![t].pos = @ + 1]

\* inf.poll().await.unwrap(): the stream is there, or the task panics.
PollStart(t) ==
    /\ tasks[t].pc = "start"
    /\ \E okPoll \in BOOLEAN :
          /\ tasks' = IF okPoll THEN [tasks EXCEPT ![t].pc = "run"]
                      ELSE Abort(tasks, t)
          /\ senders' = IF okPoll THEN senders ELSE senders \ {t}
    /\ UNCHANGED << resource, informers, queue, channel, alive, started, feed,
                    delivered, nsent, w, ri >>

\* poll_i.next().await yields None: the while-let loop and the task end.
StreamEnd(t) ==
    /\ tasks[t].pc = "run"
    /\ tasks[t].pos = Len(feed[tasks[t].inf])
    /\ tasks' = [tasks EXCEPT ![t].pc = "ended"]
    /\ senders' = senders \ {t}
    /\ UNCHANGED << resource, informers, queue, channel, alive, started, feed,
                    delivered, nsent, w, ri >>

\* One iteration of the loop: poll_i.next().await yields Some(ev).
ListenerStep(t) ==
    /\ tasks[t].pc = "run"
    /\ tasks[t].pos < Len(feed[tasks[t].inf])
    /\ (alive /\ feed[tasks[t].inf][tasks[t].pos + 1].ok) => HasRoom(channel)
    /\ LET r == tasks[t].inf
           i == tasks[t].pos + 1
           ev == feed[r][i]
       IN IF ev.ok
          THEN LET m == try_from(ev.val[1])
                   f == m.ok /\ m.val[1] \notin Pending(channel)
               IN IF alive
                  THEN /\ channel' = unbounded_send(channel,
                                        Entry(m, t, r, i, nsent + 1, f))
                       /\ nsent' = nsent + 1
                       /\ tasks' = Continue(tasks, t, ev.val[1])
                       /\ UNCHANGED senders
                  ELSE \* the receiver is gone: expect() panics
                       /\ tasks' = Abort([tasks EXCEPT ![t].pos = i], t)
                       /\ senders' = senders \ {t}
                       /\ UNCHANGED << channel, nsent >>
          ELSE \* unimplemented!()
               /\ tasks' = Abort([tasks EXCEPT ![t].pos = i], t)
               /\ senders' = senders \ {t}
               /\ UNCHANGED << channel, nsent >>
    /\ UNCHANGED << resource, informers, queue, alive, started, feed,
                    delivered, w, ri >>

\* ------------------------------------------------------------------------
\* The environment: the receiving end, the cluster, the owner
\* ------------------------------------------------------------------------
\* A plausible slip: the newest buffered message is handed out first.
RecvLast(ch) == << Last(ch), SubSeq(ch, 1, Len(ch) - 1) >>

\* UnboundedReceiver::next on channel.1: the oldest buffered message and
\* the rest of the buffer.
Recv(ch) == << Head(ch), Tail(ch) >>

\* Whoever holds channel.1 pulls the next message.
Receive ==
    /\ alive
    /\ channel # << >>
    /\ delivered' = Append(delivered, Recv(channel)[1])
    /\ channel' = Recv(channel)[2]
    /\ UNCHANGED << resource, informers, queue, alive, started, tasks, feed,
                    nsent, senders, w, ri >>

\* The Controller value is dropped: channel.1 closes and its buffer goes.
Drop ==
    /\ alive
    /\ alive' = FALSE
    /\ channel' = << >>
    /\ senders' = senders \ {0}
    /\ UNCHANGED << resource, informers, queue, started, tasks, feed,
                    delivered, nsent, w, ri >>

\* The watch stream of a registered resource gets one more item.
Change(r, it) ==
    /\ started
    /\ SumLen(feed, Kinds) < MaxEvents
    /\ feed' = [feed EXCEPT ![r] = Append(@, it)]
    /\ UNCHANGED << resource, informers, queue, channel, alive, started,
                    tasks, delivered, nsent, senders, w, ri >>

Next ==
    \/ \E r \in Kinds : owns(r)
    \/ init
    \/ \E t \in DOMAIN tasks : PollStart(t)
    \/ \E t \in DOMAIN tasks : StreamEnd(t)
    \/ \E t \in DOMAIN tasks : ListenerStep(t)
    \/ Receive
    \/ Drop
    \/ \E r \in Registered : \E it \in Items(r) : Change(r, it)

Spec == Init /\ [][Next]_vars

\* ------------------------------------------------------------------------
\* The Event Normalizer on its own: any input, one application
\* ------------------------------------------------------------------------
NormInit ==
    /\ resource = "Pod"
    /\ informers = << >>
    /\ queue = << >>
    /\ channel = << >>
    /\ alive = TRUE
    /\ started = FALSE
    /\ tasks = << >>
    /\ feed = [k \in Kinds |-> << >>]
    /\ delivered = << >>
    /\ nsent = 0
    /\ senders = {0}
    /\ w \in WatchEvents
    /\ ri = None

Normalize ==
    /\ ri = None
    /\ ri' = Some(try_from(w))
    /\ UNCHANGED << w, pipeline >>

NormNext == Normalize

NormSpec == NormInit /\ [][NormNext]_vars

\* ------------------------------------------------------------------------
\* Vocabulary of the properties
\* ------------------------------------------------------------------------
\* Everything sent and not lost, in the order the receiver gets it.
AllEntries == delivered \o channel

\* A stream item that is an Added, Modified or Deleted notification.
IsChange(it) == it.ok /\ it.val[1].type \in {"Added", "Modified", "Deleted"}

\* A stream item that is an Error notification.
IsErrorNote(it) == it.ok /\ it.val[1].type = "Error"

\* A failure reported by the Watch Source: an Error notification or a
\* failed item of the stream.
IsFailure(it) == ~it.ok \/ IsErrorNote(it)

\* Nothing is in flight: every listener has seen its whole stream (or is
\* gone) and the buffer is drained.
Quiescent ==
    /\ started /\ alive /\ channel = << >>
    /\ \A t \in DOMAIN tasks :
          /\ tasks[t].pc # "start"
          /\ tasks[t].pc = "run" => tasks[t].pos = Len(feed[tasks[t].inf])

\* The requests (Ok messages) buffered in ch, in order.
RECURSIVE OkMsgs(_)
OkMsgs(ch) ==
    IF ch = << >> THEN << >>
    ELSE IF Head(ch).msg.ok THEN << Head(ch).msg >> \o OkMsgs(Tail(ch))
         ELSE OkMsgs(Tail(ch))

\* Task t consumes its next stream item in this step.
Consumes(t) == tasks'[t].pos = tasks[t].pos + 1

\* The stream item task t consumes next.
NextItem(t) == feed[tasks[t].inf][tasks[t].pos + 1]

\* ------------------------------------------------------------------------
\* C1
\* ------------------------------------------------------------------------
\* C1: every Added, Modified or Deleted notification of a watched resource
\* (the primary one or an owned one) ends up as exactly one Reconcile
\* Request delivered to the caller: once nothing is in flight any more, a
\* request with the notification's identity has been delivered, and no
\* notification was delivered twice. (The code never collapses requests.)
C1_EveryNotificationDelivered ==
    Quiescent =>
        \A r \in Registered : \A i \in DOMAIN feed[r] :
            IsChange(feed[r][i]) =>
                /\ \E j \in DOMAIN delivered :
                      delivered[j].msg = Ok(From(feed[r][i].val[1].object[1]))
                /\ Cardinality({j \in DOMAIN delivered :
                                  /\ delivered[j].res = r
                                  /\ delivered[j].idx = i}) <= 1

\* ------------------------------------------------------------------------
\* C2
\* ------------------------------------------------------------------------
\* C2: debounce: the pending work visible to the caller never holds two
\* Reconcile Requests for the same identity (name, namespace).
C2_AtMostOnePendingPerIdentity ==
    \A i \in DOMAIN channel : \A j \in DOMAIN channel :
        (i < j /\ channel[i].msg.ok /\ channel[j].msg.ok)
            => channel[i].msg.val # channel[j].msg.val

\* ------------------------------------------------------------------------
\* C3
\* ------------------------------------------------------------------------
\* C3: try_from is total and pure: on Added, Modified and Deleted of any
\* kind it returns Ok with the object's name() and namespace(), on Error(e)
\* it returns Err wrapping e and no request; nothing else changes.
C3_NormalizerTotalAndPure ==
    ri # None =>
        /\ w.type \in {"Added", "Modified", "Deleted"} =>
              /\ ri[1].ok
              /\ ri[1].err = None
              /\ ri[1].val[1].name = w.object[1].metadata.name
              /\ ri[1].val[1].namespace = w.object[1].metadata.namespace
              /\ DOMAIN ri[1].val[1] = {"name", "namespace"}
        /\ w.type = "Error" =>
              /\ ~ri[1].ok
              /\ ri[1].val = None
              /\ ri[1].err = Some([variant |-> "Api", resp |-> w.error[1]])
        /\ pipeline = << "Pod", << >>, << >>, << >>, TRUE, FALSE, << >>,
                         [k \in Kinds |-> << >>], << >>, 0, {0} >>

\* A Deleted notification of an object without namespace was normalized.
C3_Witness ==
    /\ ri # None
    /\ w.type = "Deleted"
    /\ w.object[1].metadata.namespace = None
    /\ w.object[1].kind = "Foo"
    /\ ri[1] = Ok([name |-> "rs1", namespace |-> None])

\* ------------------------------------------------------------------------
\* C4
\* ------------------------------------------------------------------------
\* Task t fails in this step: it panics, or it consumes an Error
\* notification.
FailStep(t) ==
    \/ tasks[t].pc # "panicked" /\ tasks'[t].pc = "panicked"
    \/ /\ tasks[t].pc = "run" /\ tasks[t].pos < Len(feed[tasks[t].inf])
       /\ Consumes(t) /\ IsErrorNote(NextItem(t))

\* A step in which listener t1 fails leaves every other listener as it was
\* and takes nothing out of the channel or of what was delivered.
FailureIsLocal ==
    \A t1 \in DOMAIN tasks :
        FailStep(t1) =>
            /\ \A t2 \in DOMAIN tasks \ {t1} : tasks'[t2] = tasks[t2]
            /\ IsPrefix(channel, channel')
            /\ delivered' = delivered
            /\ alive' = alive

\* Whatever the other listeners did, a running listener with an unread item
\* can take its step, and a buffered message can be received.
NothingBlocked ==
    /\ \A t \in DOMAIN tasks :
          (tasks[t].pc = "run" /\ tasks[t].pos < Len(feed[tasks[t].inf]))
              => ENABLED ListenerStep(t)
    /\ (alive /\ channel # << >>) => ENABLED Receive

\* C4: fault isolation: the failure of one resource's listener (an Error
\* notification, a failed stream item, the task panicking) neither stops nor
\* blocks another listener, and what the others forwarded stays deliverable.
C4_FaultIsolation == []NothingBlocked /\ [][FailureIsLocal]_vars

\* One listener has panicked on a failed item of its stream; the listener of
\* another resource has forwarded two requests and is still running, and
\* both its requests have been received.
C4_Witness ==
    \E t1 \in DOMAIN tasks : \E t2 \in DOMAIN tasks :
        /\ t1 # t2
        /\ tasks[t1].pc = "panicked" /\ tasks[t1].pos = 1
        /\ ~feed[tasks[t1].inf][1].ok
        /\ tasks[t2].pc = "run" /\ tasks[t2].pos = 2
        /\ tasks[t1].inf # tasks[t2].inf
        /\ Len(delivered) = 2
        /\ \A j \in DOMAIN delivered :
              delivered[j].task = t2 /\ delivered[j].msg.ok

ErrorStepForwardsAndContinues ==
    \A t \in DOMAIN tasks :
        ( /\ alive /\ tasks[t].pc = "run"
          /\ tasks[t].pos < Len(feed[tasks[t].inf])
          /\ Consumes(t) /\ IsErrorNote(NextItem(t)) )
        => /\ Len(channel') = Len(channel) + 1
           /\ IsPrefix(channel, channel')
           /\ Last(channel').msg = Err(ErrorApi(NextItem(t).val[1].error[1]))
           /\ Last(channel').task = t
           /\ tasks'[t].pc = "run"

NamesResource(m) == ~m.ok /\ "resource" \in DOMAIN m.err[1]

\* C6: every failure a Watch Source reported to a listener (an Error
\* notification or a failed stream item) is on its way to the caller as an
\* error value that identifies the originating resource.
C6_EverySourceFailureReachesCaller ==
    alive =>
        \A t \in DOMAIN tasks : \A i \in 1..tasks[t].pos :
            IsFailure(feed[tasks[t].inf][i]) =>
                \E a \in DOMAIN AllEntries :
                    /\ AllEntries[a].task = t
                    /\ AllEntries[a].idx = i
                    /\ NamesResource(AllEntries[a].msg)

\* ------------------------------------------------------------------------
\* C7
\* ------------------------------------------------------------------------
\* C7: the messages a listener produced from its stream are sent, buffered
\* and received in the order of the stream, whatever the other listeners do.
C7_PerStreamOrderPreserved ==
    \A a \in DOMAIN AllEntries : \A b \in DOMAIN AllEntries :
        ( /\ AllEntries[a].task = AllEntries[b].task
          /\ AllEntries[a].idx < AllEntries[b].idx )
        => AllEntries[a].seq < AllEntries[b].seq /\ a < b

\* Two messages of one listener were received with a message of another
\* resource's listener between them.
C7_Witness ==
    /\ Len(delivered) = 3
    /\ delivered[1].task = delivered[3].task
    /\ delivered[1].task # delivered[2].task
    /\ delivered[1].res # delivered[2].res
    /\ delivered[1].idx = 1 /\ delivered[3].idx = 2

\* ------------------------------------------------------------------------
\* C8
\* ------------------------------------------------------------------------
\* Request x was enqueued before request y, for another identity, each when
\* its identity had nothing pending.
FirstArrivalBefore(x, y) ==
    /\ x.msg.ok /\ y.msg.ok
    /\ x.fresh /\ y.fresh
    /\ x.msg.val # y.msg.val
    /\ x.seq < y.seq

\* C8: FIFO by first arrival: of two requests for distinct identities, each
\* enqueued with no pending entry, the one enqueued first is dequeued first.
C8_FifoByFirstArrival ==
    /\ \A i \in DOMAIN delivered : \A j \in DOMAIN delivered :
          FirstArrivalBefore(delivered[i], delivered[j]) => i < j
    /\ \A i \in DOMAIN delivered : \A j \in DOMAIN channel :
          ~FirstArrivalBefore(channel[j], delivered[i])

\* Two requests for distinct identities were received, first sent first.
C8_Witness ==
    /\ Len(delivered) >= 2
    /\ FirstArrivalBefore(delivered[1], delivered[2])
    /\ channel # << >>

\* ------------------------------------------------------------------------
\* C9
\* ------------------------------------------------------------------------
\* A notification for an identity that is already pending leaves the
\* pending requests as they are: nothing is appended and nothing moves.
RetriggerKeepsQueue ==
    ( /\ nsent' = nsent + 1
      /\ Last(channel').msg.ok
      /\ Last(channel').msg.val[1] \in Pending(channel) )
    => OkMsgs(channel') = OkMsgs(channel)

\* C9: re-triggering a pending identity does not reposition it and appends
\* no additional entry for it.
C9_RetriggerKeepsPosition == [][RetriggerKeepsQueue]_vars

\* ------------------------------------------------------------------------
\* C10
\* ------------------------------------------------------------------------
\* The listener tasks of resource r.
ListenersOf(r) == {t \in DOMAIN tasks : tasks[t].inf = r}

\* C10: once started, every registered resource, the primary one and each
\* owned one, has exactly one listener task.
C10_OneListenerPerRegisteredResource ==
    started => \A r \in Registered : Cardinality(ListenersOf(r)) = 1

\* ------------------------------------------------------------------------
\* C11
\* ------------------------------------------------------------------------
\* C11: once init has run, no step adds a resource to the watched set:
\* informers stays as it is.
C11_NoRegistrationAfterStart == [][started => informers' = informers]_vars

\* ------------------------------------------------------------------------
\* C12
\* ------------------------------------------------------------------------
\* C12: a start call on a Controller that is already running spawns no
\* second set of listeners: once started, the set of listener tasks stays as
\* it is.
C12_StartSpawnsOnce == [][started => Len(tasks') = Len(tasks)]_vars

\* ------------------------------------------------------------------------
\* C13
\* ------------------------------------------------------------------------
\* The Controller is stopped in this step. The code has no shutdown call:
\* the one way to stop a Controller is to drop the value.
StopStep == alive /\ ~alive'

\* C13: cancellation safety: stopping the Controller removes nothing from
\* the channel: what was forwarded and not yet drained is still there.
C13_StopKeepsPendingRequests == [][StopStep => channel' = channel]_vars

\* ------------------------------------------------------------------------
\* C14
\* ------------------------------------------------------------------------
\* Listener t has stopped.
Stopped(t) == tasks[t].pc \in {"ended", "panicked"}

\* C14: cooperative cancellation: after the Controller is shut down a
\* listener does not stay suspended between two notifications: each one has
\* stopped or has a step of its own to take.
C14_ListenersObserveCancellation ==
    ~alive =>
        \A t \in DOMAIN tasks :
            Stopped(t) \/ ENABLED PollStart(t) \/ ENABLED ListenerStep(t)

\* ------------------------------------------------------------------------
\* C15
\* ------------------------------------------------------------------------
\* Listener t has an unread notification to forward.
ReadyToForward(t) ==
    /\ tasks[t].pc = "run"
    /\ tasks[t].pos < Len(feed[tasks[t].inf])
    /\ NextItem(t).ok

\* C15: a slow consumer never blocks a listener: while the channel is open,
\* the step that forwards the next notification is enabled and appends to
\* the channel, however many messages are undrained.
C15_ForwardNeverBlocked ==
    alive =>
        \A t \in DOMAIN tasks :
            ReadyToForward(t) =>
                ENABLED (ListenerStep(t) /\ Len(channel') = Len(channel) + 1)

\* Nothing was received, two messages are buffered, and a listener has one
\* more notification to forward.
C15_Witness ==
    /\ alive /\ delivered = << >> /\ Len(channel) = 2
    /\ \E t \in DOMAIN tasks : ReadyToForward(t)

\* ------------------------------------------------------------------------
\* C16
\* ------------------------------------------------------------------------
\* What the receiver gets once the buffer is empty and no sender is left:
\* the end of the stream.
EndOfStream == channel = << >> /\ senders = {}

\* Every listener the Controller spawned has terminated.
AllListenersTerminated == tasks # << >> /\ \A t \in DOMAIN tasks : Stopped(t)

\* C16: when all listeners have terminated and the buffer is drained, the
\* structural failure is surfaced to the caller: the receiver sees the
\* channel closed.
C16_StructuralFailureSurfaced ==
    (alive /\ AllListenersTerminated /\ channel = << >>) => EndOfStream

\* ------------------------------------------------------------------------
\* C18
\* ------------------------------------------------------------------------
\* C18: while the Controller exists it holds its own sender, so the
\* receiver never sees the end of the stream, also with every listener
\* terminated.
C18_ChannelNeverClosedByProducers ==
    alive => 0 \in senders /\ ~EndOfStream

\* All listeners have terminated, everything they sent was received.
C18_Witness ==
    /\ alive /\ AllListenersTerminated /\ Len(tasks) = 2
    /\ channel = << >> /\ delivered # << >>


\* ------------------------------------------------------------------------
\* End to end: primary Pod, owned ReplicaSet, two scripted notifications
\* ------------------------------------------------------------------------
\* What the scripted objects hold besides their name and namespace.
Contents == {0, 1, 2}

\* What the cluster reports, in this order: Added(Pod p1/default), then
\* Modified(ReplicaSet rs1/default), the objects having content c.
Script(c) ==
    << << "Pod", Ok(Added(Object("Pod", "p1", Some("default"), c))) >>,
       << "ReplicaSet",
          Ok(Modified(Object("ReplicaSet", "rs1", Some("default"), c))) >> >>

\* The watch stream of the next scripted resource yields the next item.
Inject ==
    /\ started
    /\ SumLen(feed, Kinds) < Len(Script(0))
    /\ \E c \in Contents :
          LET s == Script(c)[SumLen(feed, Kinds) + 1]
          IN feed' = [feed EXCEPT ![s[1]] = Append(@, s[2])]
    /\ UNCHANGED << resource, informers, queue, channel, alive, started,
                    tasks, delivered, nsent, senders, w, ri >>

\* Controller::new(client, Pod).owns(ReplicaSet, lp).init(), then the
\* listeners, the receiving end and the cluster run as they like.
E2ENext ==
    \/ (~started /\ informers = << >>) /\ owns("ReplicaSet")
    \/ (~started /\ informers # << >>) /\ init
    \/ \E t \in DOMAIN tasks : PollStart(t)
    \/ \E t \in DOMAIN tasks : StreamEnd(t)
    \/ \E t \in DOMAIN tasks : ListenerStep(t)
    \/ Receive
    \/ Drop
    \/ Inject

E2ESpec == Init /\ [][E2ENext]_vars

\* Everything scripted was reported, every listener is running and has
\* taken all of its stream, and the caller has drained the channel.
ScenarioSettled ==
    /\ alive /\ started
    /\ SumLen(feed, Kinds) = Len(Script(0))
    /\ tasks # << >>
    /\ \A t \in DOMAIN tasks :
          tasks[t].pc = "run" /\ tasks[t].pos = Len(feed[tasks[t].inf])
    /\ channel = << >>

\* C17: once the scenario has settled, the caller has received exactly the
\* Reconcile Requests {p1, default} and then {rs1, default}.
C17_EndToEndTwoRequests ==
    ScenarioSettled =>
        OkMsgs(delivered) = << ReconcileEvent("p1", Some("default")),
                               ReconcileEvent("rs1", Some("default")) >>


\* ------------------------------------------------------------------------
\* C19
\* ------------------------------------------------------------------------
\* Listener t stops in this step.
StopsNow(t) == ~Stopped(t) /\ tasks'[t].pc \in {"ended", "panicked"}

\* Its stream ends: poll_i.next() yields None.
StreamEnds(t) ==
    /\ tasks[t].pc = "run" /\ tasks[t].pos = Len(feed[tasks[t].inf])
    /\ tasks'[t].pc = "ended"

\* Its stream yields a failed item: unimplemented!().
FailedItem(t) ==
    /\ tasks[t].pc = "run" /\ tasks[t].pos < Len(feed[tasks[t].inf])
    /\ ~NextItem(t).ok /\ tasks'[t].pc = "panicked"

\* Its send fails because the receiver is gone: expect() panics.
SendFails(t) ==
    /\ tasks[t].pc = "run" /\ tasks[t].pos < Len(feed[tasks[t].inf])
    /\ NextItem(t).ok /\ ~alive /\ tasks'[t].pc = "panicked"

\* inf.poll() fails before the loop is entered: unwrap() panics.
PollFails(t) == tasks[t].pc = "start" /\ tasks'[t].pc = "panicked"

\* What a step of listener t does to the channel: a stopping step sends
\* nothing, a step that consumes a notification and goes on sends exactly
\* the one message made of it, any other step of t sends nothing.
SendDiscipline(t) ==
    /\ StopsNow(t) => channel' = channel /\ nsent' = nsent
    /\ (Consumes(t) /\ ~StopsNow(t)) =>
          /\ Len(channel') = Len(channel) + 1
          /\ SubSeq(channel', 1, Len(channel)) = channel
          /\ Last(channel').task = t
          /\ Last(channel').msg = try_from(NextItem(t).val[1])
    /\ (tasks'[t] # tasks[t] /\ ~Consumes(t)) => channel' = channel

\* C19 as stated: a listener stops only because its stream ends, its stream
\* yields a failed item, or a send fails with the receiver gone; a stopping
\* step sends nothing and every other consuming step sends exactly one
\* message.
C19_StopsOnlyInThreeWays ==
    [][\A t \in DOMAIN tasks :
          /\ StopsNow(t) => StreamEnds(t) \/ FailedItem(t) \/ SendFails(t)
          /\ SendDiscipline(t)]_vars

\* C19, amended: there is a fourth way to stop, the failure of inf.poll()
\* at the start of the task; with it the list is complete, no stopping step
\* sends a message and every other consuming step sends exactly one.
C19_StopsOnlyInFourWays ==
    [][\A t \in DOMAIN tasks :
          /\ StopsNow(t) =>
                StreamEnds(t) \/ FailedItem(t) \/ SendFails(t) \/ PollFails(t)
          /\ SendDiscipline(t)]_vars

\* One listener stopped at its start, having consumed nothing; another one
\* forwarded a notification and then stopped on its second item, sending
\* nothing for it.
C19_Witness ==
    \E t1, t2 \in DOMAIN tasks :
        /\ tasks[t1].pc = "panicked" /\ tasks[t1].pos = 0
        /\ tasks[t2].pc = "panicked" /\ tasks[t2].pos = 2
        /\ nsent = 1


\* ------------------------------------------------------------------------
\* C20
\* ------------------------------------------------------------------------
\* This step is a call of init: it starts the Controller or spawns tasks.
InitStep == (~started /\ started') \/ Len(tasks') > Len(tasks)

====
